---- MODULE Spec2Model ----
(***************************************************************************)
(* Model of Ai_script.py: the POST /get_open_slots handler, its three      *)
(* helpers (get_travel_time, get_job_duration, get_calendar_events) and    *)
(* find_available_slot, with the Distance Matrix service and the calendar  *)
(* service as external state.                                              *)
(*                                                                         *)
(* Representation.                                                         *)
(*  - A Python str that the code inspects character by character           *)
(*    (job_type) is a sequence of one-character strings.                   *)
(*  - A datetime is [aware, wall, utcoffset]: wall-clock seconds since     *)
(*    2024-01-01T00:00:00, and the UTC offset in seconds when aware.       *)
(*  - A timestamp text is [wall, zone]: zone is the sequence of zone       *)
(*    designators that follow the wall-clock part ("Z", "+01:00").         *)
(*  - A number of minutes is [whole, frac]: whole minutes and sixtieths.   *)
(***************************************************************************)
EXTENDS Integers, Sequences, FiniteSets, TLC

VARIABLES
    JOB_DURATIONS,     \* the module-level table (lines 24-34)
    travel_service,    \* external: job address -> Distance Matrix response
    calendar_service,  \* external: the calendar's answer to events().list()
    body,              \* per request: the HTTP body
    pc,                \* per request: position in get_open_slots
    raised,            \* per request: the exception that ended it, or "none"
    travel_time,       \* per request: local of find_available_slot
    job_duration,      \* per request: local of find_available_slot
    end_time,          \* per request: local of find_available_slot
    events,            \* per request: local of find_available_slot
    conflict,          \* per request: local of find_available_slot
    slot,              \* per request: what find_available_slot returned
    response,          \* per request: what the caller receives
    outbound           \* per request: the outbound calls made, in order

vars == <<JOB_DURATIONS, travel_service, calendar_service, body, pc, raised,
          travel_time, job_duration, end_time, events, conflict, slot,
          response, outbound>>

----------------------------------------------------------------------------
(* Bounds of the model *)

\* number of request slots of the concurrent specification
NumRequests == 2
\* longest list of events the calendar returns
MaxEvents == 2
\* longest generated job-type string of the duration specification
MaxLen == 3

Requests == 1 .. NumRequests

----------------------------------------------------------------------------
(* Job types and the duration table (lines 24-34, 83-84) *)

K_pipe_burst ==
    <<"p", "i", "p", "e", " ", "b", "u", "r", "s", "t">>
K_leak ==
    <<"l", "e", "a", "k">>
K_boiler_service ==
    <<"b", "o", "i", "l", "e", "r", " ", "s", "e", "r", "v", "i", "c", "e">>
K_tap_replacement ==
    <<"t", "a", "p", " ", "r", "e", "p", "l", "a", "c", "e", "m", "e", "n", "t">>
K_electrical_repair ==
    <<"e", "l", "e", "c", "t", "r", "i", "c", "a", "l", " ", "r", "e", "p", "a", "i", "r">>
K_socket_installation ==
    <<"s", "o", "c", "k", "e", "t", " ", "i", "n", "s", "t", "a", "l", "l", "a", "t", "i", "o", "n">>
K_fuse_replacement ==
    <<"f", "u", "s", "e", " ", "r", "e", "p", "l", "a", "c", "e", "m", "e", "n", "t">>
K_general_maintenance ==
    <<"g", "e", "n", "e", "r", "a", "l", " ", "m", "a", "i", "n", "t", "e", "n", "a", "n", "c", "e">>
K_painting ==
    <<"p", "a", "i", "n", "t", "i", "n", "g">>

JobDurationEntries ==
    { <<K_pipe_burst, 120>>, <<K_leak, 60>>, <<K_boiler_service, 90>>,
      <<K_tap_replacement, 60>>, <<K_electrical_repair, 90>>,
      <<K_socket_installation, 60>>, <<K_fuse_replacement, 30>>,
      <<K_general_maintenance, 60>>, <<K_painting, 120>> }

JobDurationKeys == { e[1] : e \in JobDurationEntries }

\* the dict literal of lines 24-34
JobDurationTable ==
    [ k \in JobDurationKeys |->
        (CHOOSE e \in JobDurationEntries : e[1] = k)[2] ]

\* the default of JOB_DURATIONS.get(..., 60)
DefaultDuration == 60

Uppercase ==
    <<"A", "B", "C", "D", "E", "F", "G", "H", "I", "J", "K", "L", "M",
      "N", "O", "P", "Q", "R", "S", "T", "U", "V", "W", "X", "Y", "Z">>
Lowercase ==
    <<"a", "b", "c", "d", "e", "f", "g", "h", "i", "j", "k", "l", "m",
      "n", "o", "p", "q", "r", "s", "t", "u", "v", "w", "x", "y", "z">>

\* str.lower() on one character: an upper-case letter maps to its lower-case
\* letter, every other character to itself
LowerChar(c) ==
    IF \E k \in DOMAIN Uppercase : Uppercase[k] = c
    THEN Lowercase[CHOOSE k \in DOMAIN Uppercase : Uppercase[k] = c]
    ELSE c

\* str.lower()
str_lower(s) == [ i \in 1 .. Len(s) |-> LowerChar(s[i]) ]

\* dict.get(key, default)
dict_get(table, key, default) ==
    IF key \in DOMAIN table THEN table[key] ELSE default

\* a lookup that forgets to normalise the case of its argument
get_job_duration_no_lower(table, job_type) ==
    dict_get(table, job_type, DefaultDuration)

\* line 84: return JOB_DURATIONS.get(job_type.lower(), 60)
get_job_duration(table, job_type) ==
    dict_get(table, str_lower(job_type), DefaultDuration)

\* a lookup that removes the entry it reads (dict.pop instead of dict.get)
table_after_pop(table, job_type) ==
    [ k \in DOMAIN table \ {str_lower(job_type)} |-> table[k] ]

\* line 84 reads the table with dict.get, which leaves the dict as it was
table_after_get(table, job_type) == table

----------------------------------------------------------------------------
(* Minutes, datetimes and timestamp texts *)

ZeroMinutes == [whole |-> 0, frac |-> 0]

\* value / 60 for a number of seconds (line 80): exact, as minutes and sixtieths
seconds_div_60(value) == [whole |-> value \div 60, frac |-> value % 60]

\* timedelta(minutes=travel_time + job_duration) in seconds (line 102)
timedelta_minutes(travel, duration) ==
    60 * (travel.whole + duration) + travel.frac

NoTime == [aware |-> FALSE, wall |-> -1, utcoffset |-> 0]

ZoneOffset(z) ==
    CASE z = "Z" -> 0
      [] z = "+00:00" -> 0
      [] z = "+01:00" -> 3600
      [] OTHER -> 0

\* a timestamp text is well formed when it carries at most one zone designator
WellFormedText(text) == text.wall >= 0 /\ Len(text.zone) <= 1

\* datetime parsing (pydantic for the request, datetime.fromisoformat for an
\* event): no designator gives a naive datetime, one designator an aware one
parse_datetime(text) ==
    IF Len(text.zone) = 0
    THEN [aware |-> FALSE, wall |-> text.wall, utcoffset |-> 0]
    ELSE [aware |-> TRUE, wall |-> text.wall,
          utcoffset |-> ZoneOffset(text.zone[1])]

\* datetime.isoformat(): an aware datetime prints its offset, a naive one none
isoformat(dt) ==
    [wall |-> dt.wall,
     zone |-> IF dt.aware
              THEN <<IF dt.utcoffset = 0 THEN "+00:00" ELSE "+01:00">>
              ELSE << >>]

\* text + "Z" (lines 89-90)
plus_Z(text) == [wall |-> text.wall, zone |-> Append(text.zone, "Z")]

\* datetime + timedelta
dt_add(dt, seconds) ==
    [aware |-> dt.aware, wall |-> dt.wall + seconds, utcoffset |-> dt.utcoffset]

\* the instant an aware datetime denotes
Instant(dt) == dt.wall - dt.utcoffset

\* a < b on datetimes: Python raises TypeError when exactly one is aware
dt_lt(a, b) ==
    IF a.aware # b.aware THEN "TypeError"
    ELSE IF a.aware
         THEN (IF Instant(a) < Instant(b) THEN "True" ELSE "False")
         ELSE (IF a.wall < b.wall THEN "True" ELSE "False")

----------------------------------------------------------------------------
(* get_travel_time (lines 61-80) *)

BASE_ADDRESS == "base"

\* A Distance Matrix exchange.  fault: requests.get() or .json() raises.
\* Otherwise the JSON object: "rows" present or not, each row with "elements"
\* present or not, each element with a "status" and a "duration" present or not.
Element(status, has_duration, value) ==
    [status |-> status, has_duration |-> has_duration, value |-> value]
Row(has_elements, elements) ==
    [has_elements |-> has_elements, elements |-> elements]
TravelResponse(fault, has_rows, rows) ==
    [fault |-> fault, has_rows |-> has_rows, rows |-> rows]

TravelResult(exc, minutes) == [raised |-> exc, minutes |-> minutes]

\* lines 68-80
get_travel_time(res) ==
    IF res.fault
    THEN TravelResult("RequestException", ZeroMinutes)
    ELSE IF ~res.has_rows \/ Len(res.rows) = 0
    THEN TravelResult("none", ZeroMinutes)
    ELSE LET row == res.rows[1] IN
         IF ~row.has_elements \/ Len(row.elements) = 0
         THEN TravelResult("none", ZeroMinutes)
         ELSE LET el == row.elements[1] IN
              IF el.status # "OK"
              THEN TravelResult("none", ZeroMinutes)
              ELSE IF ~el.has_duration
              THEN TravelResult("KeyError", ZeroMinutes)
              ELSE TravelResult("none", seconds_div_60(el.value))

----------------------------------------------------------------------------
(* get_calendar_events (lines 86-94) *)

\* an event timestamp: {"dateTime": text} or {"date": text}
EventTime(key, wall, zone) == [key |-> key, wall |-> wall, zone |-> zone]
Event(start, end) == [start |-> start, end |-> end]

\* A calendar exchange.  fault: events().list(...).execute() raises.
CalendarResponse(fault, has_items, items) ==
    [fault |-> fault, has_items |-> has_items, items |-> items]

CalendarResult(exc, items, timeMin, timeMax) ==
    [raised |-> exc, items |-> items, timeMin |-> timeMin, timeMax |-> timeMax]

\* a lookup that answers a failed exchange with the empty list
get_calendar_events_swallow(cal, start_time, end_time_) ==
    CalendarResult("none",
                   IF ~cal.fault /\ cal.has_items THEN cal.items ELSE << >>,
                   plus_Z(isoformat(start_time)), plus_Z(isoformat(end_time_)))

\* lines 87-94: events_result.get("items", [])
get_calendar_events(cal, start_time, end_time_) ==
    CalendarResult(IF cal.fault THEN "HttpError" ELSE "none",
                   IF ~cal.fault /\ cal.has_items THEN cal.items ELSE << >>,
                   plus_Z(isoformat(start_time)), plus_Z(isoformat(end_time_)))

----------------------------------------------------------------------------
(* find_available_slot (lines 96-120) *)

\* datetime.fromisoformat(e[k].get('dateTime', e[k].get('date')))
event_datetime(et) == parse_datetime([wall |-> et.wall, zone |-> et.zone])

\* lines 106-110: any(start < end_time and end > requested_time for e in events),
\* evaluated left to right; "and" and any() both stop at the first decisive
\* value, and a comparison that raises ends the evaluation
RECURSIVE any_conflict(_, _, _)
any_conflict(evs, requested_time, end_time_) ==
    IF evs = << >> THEN "False"
    ELSE LET e == Head(evs)
             c1 == dt_lt(event_datetime(e.start), end_time_)
             c2 == dt_lt(requested_time, event_datetime(e.end))
         IN  IF c1 = "TypeError" THEN "TypeError"
             ELSE IF c1 = "False"
             THEN any_conflict(Tail(evs), requested_time, end_time_)
             ELSE IF c2 = "TypeError" THEN "TypeError"
             ELSE IF c2 = "True" THEN "True"
             ELSE any_conflict(Tail(evs), requested_time, end_time_)

\* an end time that leaves the travel minutes out
window_end_no_travel(requested_time, travel, duration) ==
    dt_add(requested_time, timedelta_minutes(ZeroMinutes, duration))

\* line 102: end_time = requested_time + timedelta(minutes=travel_time + job_duration)
window_end(requested_time, travel, duration) ==
    dt_add(requested_time, timedelta_minutes(travel, duration))

NoSlot ==
    [engineer |-> "", start |-> NoTime, end |-> NoTime,
     travel_time_minutes |-> ZeroMinutes, job_duration_minutes |-> 0]

\* lines 114-120
slot_dict(requested_time, end_time_, travel, duration) ==
    [engineer |-> "Tom", start |-> requested_time, end |-> end_time_,
     travel_time_minutes |-> travel, job_duration_minutes |-> duration]

\* the Python type of each value of the dict of lines 114-120
slot_value_types ==
    [engineer |-> "str", start |-> "datetime", end |-> "datetime",
     travel_time_minutes |-> "float", job_duration_minutes |-> "int"]

----------------------------------------------------------------------------
(* get_open_slots (lines 125-136) *)

Fields == {"job_type", "requested_time", "job_address"}

\* JobRequest(**data), lines 53-56 and 129: data must be a JSON object holding
\* the three fields, requested_time a parseable timestamp
validates(b) ==
    /\ b.json = "object"
    /\ b.fields = Fields
    /\ WellFormedText(b.requested_time)

\* the values json.dumps encodes without a custom encoder
JsonNativeTypes == {"str", "int", "float", "bool", "NoneType", "dict", "list"}

\* JSONResponse(content) renders with json.dumps(content): a value of any
\* other type raises TypeError
json_dumps_raises(types) ==
    \E f \in DOMAIN types : types[f] \notin JsonNativeTypes

Reply(status, available, message, s, detail) ==
    [status |-> status, available |-> available, message |-> message,
     slot |-> s, detail |-> detail]

NoResponse == Reply(0, "absent", "", NoSlot, "")
\* an exception that leaves the handler: the framework answers 500
ServerError == Reply(500, "absent", "", NoSlot, "Internal Server Error")
\* line 131
ClientError == Reply(400, "absent", "", NoSlot, "Invalid input: ...")
\* line 135
Unavailable == Reply(200, "false", "No slots available", NoSlot, "")
\* line 136
Available(s) == Reply(200, "true", "", s, "")

----------------------------------------------------------------------------
(* Inputs *)

JT_Leak ==
    <<"L", "e", "a", "k">>
JT_LEAK ==
    <<"L", "E", "A", "K">>
JT_Pipe_Burst ==
    <<"P", "i", "p", "e", " ", "B", "u", "r", "s", "t">>
JT_PIPE_BURST ==
    <<"P", "I", "P", "E", " ", "B", "U", "R", "S", "T">>
JT_Boiler_Service ==
    <<"B", "o", "i", "l", "e", "r", " ", "S", "e", "r", "v", "i", "c", "e">>
JT_Tap_Replacement ==
    <<"T", "a", "p", " ", "R", "e", "p", "l", "a", "c", "e", "m", "e", "n", "t">>
JT_Electrical_Repair ==
    <<"E", "l", "e", "c", "t", "r", "i", "c", "a", "l", " ", "R", "e", "p", "a", "i", "r">>
JT_SOCKET_INSTALLATION ==
    <<"S", "O", "C", "K", "E", "T", " ", "I", "N", "S", "T", "A", "L", "L", "A", "T", "I", "O", "N">>
JT_FUSE_REPLACEMENT ==
    <<"F", "U", "S", "E", " ", "R", "E", "P", "L", "A", "C", "E", "M", "E", "N", "T">>
JT_General_Maintenance ==
    <<"G", "e", "n", "e", "r", "a", "l", " ", "M", "a", "i", "n", "t", "e", "n", "a", "n", "c", "e">>
JT_Painting ==
    <<"P", "a", "i", "n", "t", "i", "n", "g">>
JT_roofing ==
    <<"r", "o", "o", "f", "i", "n", "g">>
JT_leak_space ==
    <<"l", "e", "a", "k", " ">>

\* the job types of the main specification
JobTypes == {K_leak, JT_Pipe_Burst, K_boiler_service, JT_roofing}

\* the job types of the duration specification: every string over Alphabet
\* up to MaxLen characters, and the table's keys in several casings
Alphabet == {"l", "L", "e", "a", "k", "K"}
RECURSIVE StringsUpTo(_)
StringsUpTo(n) ==
    IF n = 0 THEN {<< >>}
    ELSE LET shorter == StringsUpTo(n - 1)
         IN  shorter \cup { Append(w, c) : w \in shorter, c \in Alphabet }
DurationInputs ==
    StringsUpTo(MaxLen) \cup JobDurationKeys \cup
    { JT_Leak, JT_LEAK, JT_Pipe_Burst, JT_PIPE_BURST, JT_Boiler_Service,
      JT_Tap_Replacement, JT_Electrical_Repair, JT_SOCKET_INSTALLATION,
      JT_FUSE_REPLACEMENT, JT_General_Maintenance, JT_Painting, JT_roofing,
      JT_leak_space }

Addresses == {"1 High St", "2 Mill Lane"}

Text(wall, zone) == [wall |-> wall, zone |-> zone]
\* "2024-01-01T09:00:00Z", "2024-01-01T09:00:00", "2024-01-01T10:00:00+01:00"
T0900Z == Text(32400, <<"Z">>)
T0900 == Text(32400, << >>)
T1000P1 == Text(36000, <<"+01:00">>)
NotATime == Text(-1, << >>)

Body(json, fields, job_type, requested_time, job_address) ==
    [json |-> json, fields |-> fields, job_type |-> job_type,
     requested_time |-> requested_time, job_address |-> job_address]
NoBody == Body("none", {}, << >>, NotATime, "")

ValidBody(jt, t, a) == Body("object", Fields, jt, t, a)

ValidBodies ==
    { ValidBody(jt, t, a) : jt \in JobTypes, t \in {T0900Z, T0900}, a \in Addresses }
    \cup { ValidBody(K_leak, T1000P1, "1 High St") }

InvalidBodies ==
    { Body("malformed", {}, << >>, NotATime, ""),
      Body("non_object", {}, << >>, NotATime, ""),
      Body("object", Fields \ {"job_address"}, K_leak, T0900Z, ""),
      Body("object", Fields \ {"requested_time"}, K_leak, NotATime, "1 High St"),
      Body("object", Fields \ {"job_type"}, << >>, T0900Z, "1 High St"),
      Body("object", Fields, K_leak, NotATime, "1 High St") }

Bodies == ValidBodies \cup InvalidBodies

OkTravel(seconds) ==
    TravelResponse(FALSE, TRUE, <<Row(TRUE, <<Element("OK", TRUE, seconds)>>)>>)

TravelResponses ==
    { TravelResponse(TRUE, FALSE, << >>),
      TravelResponse(FALSE, FALSE, << >>),
      TravelResponse(FALSE, TRUE, << >>),
      TravelResponse(FALSE, TRUE, <<Row(FALSE, << >>)>>),
      TravelResponse(FALSE, TRUE, <<Row(TRUE, << >>)>>),
      TravelResponse(FALSE, TRUE, <<Row(TRUE, <<Element("NOT_FOUND", FALSE, 0)>>)>>),
      TravelResponse(FALSE, TRUE, <<Row(TRUE, <<Element("OK", FALSE, 0)>>)>>),
      OkTravel(600), OkTravel(1800), OkTravel(90) }

Instantaneous(wall) == EventTime("dateTime", wall, <<"Z">>)
WholeDay(wall) == EventTime("date", wall, << >>)

\* 09:30-09:45, T+89m..T+91m, T+90m..T+120m, T-30m..T, 10:10-10:40 for
\* T = 09:00, and the whole day 2024-01-01
EV_0930_0945 == Event(Instantaneous(34200), Instantaneous(35100))
EV_89_91 == Event(Instantaneous(37740), Instantaneous(37860))
EV_90_120 == Event(Instantaneous(37800), Instantaneous(39600))
EV_ends_at_T == Event(Instantaneous(30600), Instantaneous(32400))
EV_1010_1040 == Event(Instantaneous(36600), Instantaneous(38400))
EV_whole_day == Event(WholeDay(0), WholeDay(86400))

EventPool ==
    { EV_0930_0945, EV_89_91, EV_90_120, EV_ends_at_T, EV_1010_1040, EV_whole_day }

RECURSIVE EventLists(_)
EventLists(n) ==
    IF n = 0 THEN {<< >>}
    ELSE LET shorter == EventLists(n - 1)
         IN  shorter \cup { <<e>> \o l : e \in EventPool, l \in {x \in shorter : Len(x) = n - 1} }

CalendarResponses ==
    { CalendarResponse(TRUE, FALSE, << >>), CalendarResponse(FALSE, FALSE, << >>) }
    \cup { CalendarResponse(FALSE, TRUE, l) : l \in EventLists(MaxEvents) }

----------------------------------------------------------------------------
(* State *)

InitLocals ==
    /\ JOB_DURATIONS = JobDurationTable
    /\ raised = [r \in Requests |-> "none"]
    /\ travel_time = [r \in Requests |-> ZeroMinutes]
    /\ job_duration = [r \in Requests |-> 0]
    /\ end_time = [r \in Requests |-> NoTime]
    /\ events = [r \in Requests |-> << >>]
    /\ conflict = [r \in Requests |-> "unset"]
    /\ slot = [r \in Requests |-> NoSlot]
    /\ response = [r \in Requests |-> NoResponse]
    /\ outbound = [r \in Requests |-> << >>]

\* one request, any body, any answer of the two services
Init ==
    /\ InitLocals
    /\ \E b \in Bodies, tr \in TravelResponses :
         /\ body = [r \in Requests |-> IF r = 1 THEN b ELSE NoBody]
         /\ travel_service =
              [a \in Addresses |-> IF a = b.job_address THEN tr ELSE OkTravel(600)]
    /\ calendar_service \in CalendarResponses
    /\ pc = [r \in Requests |-> IF r = 1 THEN "receive" ELSE "unused"]

\* one valid request for each job type of DurationInputs
InitDuration ==
    /\ InitLocals
    /\ \E jt \in DurationInputs :
         body = [r \in Requests |->
                   IF r = 1 THEN ValidBody(jt, T0900Z, "1 High St") ELSE NoBody]
    /\ travel_service = [a \in Addresses |-> OkTravel(600)]
    /\ calendar_service = CalendarResponse(FALSE, TRUE, << >>)
    /\ pc = [r \in Requests |-> IF r = 1 THEN "receive" ELSE "unused"]

ConcurrentBodies ==
    { ValidBody(K_leak, T0900Z, "1 High St"),
      ValidBody(JT_Pipe_Burst, T0900Z, "2 Mill Lane"),
      ValidBody(JT_Pipe_Burst, T0900, "1 High St"),
      Body("object", Fields \ {"job_address"}, K_leak, T0900Z, "") }

\* every request slot in flight, the two services fixed for the behaviour
InitConcurrent ==
    /\ InitLocals
    /\ body \in [Requests -> ConcurrentBodies]
    /\ travel_service \in
         [Addresses -> {TravelResponse(TRUE, FALSE, << >>), OkTravel(600)}]
    /\ calendar_service \in
         { CalendarResponse(TRUE, FALSE, << >>),
           CalendarResponse(FALSE, TRUE, << >>),
           CalendarResponse(FALSE, TRUE, <<EV_0930_0945>>),
           CalendarResponse(FALSE, TRUE, <<EV_whole_day>>) }
    /\ pc = [r \in Requests |-> "receive"]

----------------------------------------------------------------------------
(* get_open_slots, step by step *)

\* line 129: the JobRequest built from a body that validates
job_request(b) ==
    [job_type |-> b.job_type,
     requested_time |-> parse_datetime(b.requested_time),
     job_address |-> b.job_address]

Finish(r, exc, reply) ==
    /\ raised' = [raised EXCEPT ![r] = exc]
    /\ response' = [response EXCEPT ![r] = reply]
    /\ pc' = [pc EXCEPT ![r] = "done"]

TravelCall(origin, destination) ==
    [service |-> "travel", origins |-> origin, destinations |-> destination,
     timeMin |-> NotATime, timeMax |-> NotATime]
CalendarCall(timeMin, timeMax) ==
    [service |-> "calendar", origins |-> "", destinations |-> "",
     timeMin |-> timeMin, timeMax |-> timeMax]

\* line 127: data = await request.json(), outside the try block
ReadBody(r) ==
    /\ pc[r] = "receive"
    /\ IF body[r].json = "malformed"
       THEN Finish(r, "JSONDecodeError", ServerError)
       ELSE /\ pc' = [pc EXCEPT ![r] = "validate"]
            /\ UNCHANGED <<raised, response>>
    /\ UNCHANGED <<JOB_DURATIONS, travel_service, calendar_service, body,
                   travel_time, job_duration, end_time, events, conflict,
                   slot, outbound>>

\* lines 128-131
Validate(r) ==
    /\ pc[r] = "validate"
    /\ IF validates(body[r])
       THEN /\ pc' = [pc EXCEPT ![r] = "travel"]
            /\ UNCHANGED <<raised, response>>
       ELSE Finish(r, "HTTPException", ClientError)
    /\ UNCHANGED <<JOB_DURATIONS, travel_service, calendar_service, body,
                   travel_time, job_duration, end_time, events, conflict,
                   slot, outbound>>

\* lines 98-102: the travel lookup, the duration lookup and end_time
TravelLookup(r) ==
    /\ pc[r] = "travel"
    /\ LET job == job_request(body[r])
           tt == get_travel_time(travel_service[job.job_address])
           jd == get_job_duration(JOB_DURATIONS, job.job_type)
       IN  /\ outbound' = [outbound EXCEPT
                 ![r] = Append(@, TravelCall(BASE_ADDRESS, job.job_address))]
           /\ IF tt.raised # "none"
              THEN /\ Finish(r, tt.raised, ServerError)
                   /\ UNCHANGED <<JOB_DURATIONS, travel_time, job_duration, end_time>>
              ELSE /\ travel_time' = [travel_time EXCEPT ![r] = tt.minutes]
                   /\ job_duration' = [job_duration EXCEPT ![r] = jd]
                   /\ JOB_DURATIONS' = table_after_get(JOB_DURATIONS, job.job_type)
                   /\ end_time' = [end_time EXCEPT
                         ![r] = window_end(job.requested_time, tt.minutes, jd)]
                   /\ pc' = [pc EXCEPT ![r] = "calendar"]
                   /\ UNCHANGED <<raised, response>>
    /\ UNCHANGED <<travel_service, calendar_service, body, events, conflict, slot>>

\* lines 105-120 and 133-136: the calendar lookup, the conflict test, the
\* value find_available_slot returns and the response built from it
CalendarLookup(r) ==
    /\ pc[r] = "calendar"
    /\ LET job == job_request(body[r])
           got == get_calendar_events(calendar_service, job.requested_time, end_time[r])
           c == any_conflict(got.items, job.requested_time, end_time[r])
           s == slot_dict(job.requested_time, end_time[r], travel_time[r], job_duration[r])
       IN  /\ outbound' = [outbound EXCEPT
                 ![r] = Append(@, CalendarCall(got.timeMin, got.timeMax))]
           /\ IF got.raised # "none"
              THEN /\ Finish(r, got.raised, ServerError)
                   /\ UNCHANGED <<events, conflict, slot>>
              ELSE /\ events' = [events EXCEPT ![r] = got.items]
                   /\ IF c = "TypeError"
                      THEN /\ Finish(r, "TypeError: can't compare offset-naive and offset-aware datetimes",
                                     ServerError)
                           /\ UNCHANGED <<conflict, slot>>
                      ELSE /\ conflict' = [conflict EXCEPT ![r] = c]
                           /\ IF c = "True"
                              THEN /\ slot' = slot
                                   /\ Finish(r, "none", Unavailable)
                              ELSE /\ slot' = [slot EXCEPT ![r] = s]
                                   /\ IF json_dumps_raises(slot_value_types)
                                      THEN Finish(r, "TypeError: Object of type datetime is not JSON serializable",
                                                  ServerError)
                                      ELSE Finish(r, "none", Available(s))
    /\ UNCHANGED <<JOB_DURATIONS, travel_service, calendar_service, body,
                   travel_time, job_duration, end_time>>

Next ==
    \E r \in Requests :
        \/ ReadBody(r)
        \/ Validate(r)
        \/ TravelLookup(r)
        \/ CalendarLookup(r)

Spec == Init /\ [][Next]_vars
SpecDuration == InitDuration /\ [][Next]_vars
SpecConcurrent == InitConcurrent /\ [][Next]_vars

----------------------------------------------------------------------------
(* Vocabulary of the properties *)

Done(r) == pc[r] = "done"

\* the calls request r has made to one service
CallsTo(r, service) ==
    { i \in 1 .. Len(outbound[r]) : outbound[r][i].service = service }

\* request r has received the calendar's list of events
CalendarAnswered(r) == CallsTo(r, "calendar") # {} /\ ~calendar_service.fault

\* the list the calendar returned
BusyIntervals ==
    IF calendar_service.has_items THEN calendar_service.items ELSE << >>

\* the point on the time line a timestamp text denotes, a text without a
\* zone designator read as UTC
TextInstant(text) ==
    text.wall - (IF Len(text.zone) = 1 THEN ZoneOffset(text.zone[1]) ELSE 0)

RequestedInstant(r) == TextInstant(body[r].requested_time)

\* the seconds the travel service reports for request r's address, zero when
\* the response carries no estimate
ReportedTravelSeconds(r) ==
    LET res == travel_service[body[r].job_address]
    IN  IF /\ ~res.fault /\ res.has_rows /\ Len(res.rows) > 0
           /\ res.rows[1].has_elements /\ Len(res.rows[1].elements) > 0
           /\ res.rows[1].elements[1].status = "OK"
           /\ res.rows[1].elements[1].has_duration
        THEN res.rows[1].elements[1].value
        ELSE 0

\* two strings that differ at most in the case of their letters
SameLetter(x, y) ==
    x = y \/ \E k \in DOMAIN Uppercase : {x, y} = {Uppercase[k], Lowercase[k]}
EqIgnoreCase(a, b) ==
    Len(a) = Len(b) /\ \A i \in 1 .. Len(a) : SameLetter(a[i], b[i])

\* the duration the table gives a job type whatever its casing, 60 otherwise
ExpectedDuration(jt) ==
    IF \E k \in JobDurationKeys : EqIgnoreCase(jt, k)
    THEN JobDurationTable[CHOOSE k \in JobDurationKeys : EqIgnoreCase(jt, k)]
    ELSE 60

\* the end of request r's window on the time line
WindowEndInstant(r) ==
    RequestedInstant(r) + ReportedTravelSeconds(r)
        + 60 * ExpectedDuration(body[r].job_type)

\* interval b overlaps request r's window: b.start < end_time and
\* b.end > requested_time, both strict
Overlaps(b, r) ==
    /\ TextInstant(b.start) < WindowEndInstant(r)
    /\ TextInstant(b.end) > RequestedInstant(r)

SomeOverlap(r) ==
    \E i \in 1 .. Len(BusyIntervals) : Overlaps(BusyIntervals[i], r)

----------------------------------------------------------------------------
(* Properties *)

\* C1: once the calendar has returned its busy intervals and the request is
\* over, a conflict is reported if and only if some interval b has
\* b.start < end_time and b.end > requested_time.
C1_ConflictIffOverlap ==
    \A r \in Requests :
        (Done(r) /\ CalendarAnswered(r)) =>
            ((conflict[r] = "True") <=> SomeOverlap(r))

\* whenever the conflict test does produce a boolean, it is the strict overlap
\* test: an interval that starts at end_time or ends at requested_time does
\* not count
ConflictWhenComparable ==
    \A r \in Requests :
        conflict[r] \in {"True", "False"} =>
            ((conflict[r] = "True") <=> SomeOverlap(r))

\* C2: a request found available gets the window that starts at
\* requested_time, ends travel + duration minutes later, and reports the
\* travel estimate for (base, job address) and the duration estimate.
C2_WindowOfAvailableRequest ==
    \A r \in Requests :
        slot[r] # NoSlot =>
            /\ slot[r].start = parse_datetime(body[r].requested_time)
            /\ slot[r].end.aware = slot[r].start.aware
            /\ slot[r].end.utcoffset = slot[r].start.utcoffset
            /\ slot[r].end.wall - slot[r].start.wall =
                 ReportedTravelSeconds(r) + 60 * ExpectedDuration(body[r].job_type)
            /\ 60 * slot[r].travel_time_minutes.whole + slot[r].travel_time_minutes.frac
                 = ReportedTravelSeconds(r)
            /\ slot[r].job_duration_minutes = ExpectedDuration(body[r].job_type)
            /\ outbound[r][1] = TravelCall(BASE_ADDRESS, body[r].job_address)

\* leak (60) with 10 minutes of travel at 09:00 is found available until 10:10
C2_Witness ==
    \E r \in Requests :
        /\ slot[r] # NoSlot
        /\ body[r].job_type = K_leak
        /\ ReportedTravelSeconds(r) = 600
        /\ slot[r].start.wall = 32400
        /\ slot[r].end.wall = 36600

\* C3: a valid request whose calendar lookup succeeds ends in {available:
\* true, slot} when no interval conflicts and in {available: false, message}
\* when one does; neither is an error.
C3_TwoOutcomes ==
    \A r \in Requests :
        (Done(r) /\ validates(body[r]) /\ CalendarAnswered(r)) =>
            /\ response[r].status = 200
            /\ ~SomeOverlap(r) =>
                 /\ response[r].available = "true"
                 /\ response[r].slot # NoSlot
            /\ SomeOverlap(r) =>
                 /\ response[r].available = "false"
                 /\ response[r].message # ""

\* the travel response of request r fails or lacks the expected structure
TravelDegraded(r) ==
    LET res == travel_service[body[r].job_address]
    IN  \/ res.fault
        \/ ~res.has_rows
        \/ Len(res.rows) = 0
        \/ ~res.rows[1].has_elements
        \/ Len(res.rows[1].elements) = 0
        \/ res.rows[1].elements[1].status # "OK"
        \/ ~res.rows[1].elements[1].has_duration

\* C4: a travel lookup that fails or answers with an unexpected shape gives
\* travel time zero, raises nothing, and the request goes on to the calendar.
C4_TravelDegradesToZero ==
    \A r \in Requests :
        (CallsTo(r, "travel") # {} /\ TravelDegraded(r)) =>
            /\ raised[r] \notin {"RequestException", "KeyError"}
            /\ travel_time[r] = ZeroMinutes
            /\ pc[r] = "calendar" \/ CallsTo(r, "calendar") # {}

\* C5: a failed calendar lookup ends the request in a server error that
\* carries the calendar's failure, after a single lookup, with no
\* availability result.
C5_CalendarFailureSurfaces ==
    \A r \in Requests :
        (CallsTo(r, "calendar") # {} /\ calendar_service.fault) =>
            /\ Done(r)
            /\ raised[r] = "HttpError"
            /\ response[r].status = 500
            /\ response[r].available = "absent"
            /\ Cardinality(CallsTo(r, "calendar")) = 1

C5_Witness ==
    \E r \in Requests :
        /\ CallsTo(r, "calendar") # {}
        /\ calendar_service.fault
        /\ response[r] = ServerError

\* C6: a request whose body is malformed or lacks a required field ends in a
\* client error (400) with a message, and no outbound call was made.
C6_InvalidBodyIsClientError ==
    \A r \in Requests :
        (Done(r) /\ ~validates(body[r])) =>
            /\ response[r].status = 400
            /\ response[r].detail # ""
            /\ outbound[r] = << >>

\* C7: get_job_duration gives every job type the table's value for its
\* lower-cased form whatever the casing, 60 when the table has none, and
\* never raises.
C7_DurationTotalCaseInsensitive ==
    \A r \in Requests :
        (validates(body[r]) /\ CallsTo(r, "travel") # {}) =>
            /\ job_duration[r] = ExpectedDuration(body[r].job_type)
            /\ raised[r] = "none" \/ CallsTo(r, "calendar") # {}
            /\ body[r].job_type \in {K_leak, JT_Leak} => job_duration[r] = 60
            /\ body[r].job_type = JT_Pipe_Burst => job_duration[r] = 120

C7_Witness ==
    \E r \in Requests :
        /\ pc[r] = "calendar"
        /\ body[r].job_type = JT_Pipe_Burst
        /\ job_duration[r] = 120

\* C8: the table is never written, and requests with the same body end the
\* same way however they are interleaved with the others.
C8_Stateless ==
    /\ JOB_DURATIONS = JobDurationTable
    /\ \A r1, r2 \in Requests :
         (Done(r1) /\ Done(r2) /\ body[r1] = body[r2]) =>
            /\ response[r1] = response[r2]
            /\ raised[r1] = raised[r2]
            /\ slot[r1] = slot[r2]
            /\ conflict[r1] = conflict[r2]
            /\ outbound[r1] = outbound[r2]

\* two requests with the same body, both over, one of them told "unavailable"
C8_Witness ==
    \E r1, r2 \in Requests :
        /\ r1 # r2
        /\ body[r1] = body[r2]
        /\ Done(r1) /\ Done(r2)
        /\ response[r1] = Unavailable

\* the travel lookup comes first and once, the calendar lookup after it and
\* at most once
OutboundOrder ==
    \A r \in Requests :
        /\ Len(outbound[r]) <= 2
        /\ Len(outbound[r]) >= 1 => outbound[r][1].service = "travel"
        /\ Len(outbound[r]) = 2 => outbound[r][2].service = "calendar"
        /\ pc[r] = "calendar" => Len(outbound[r]) = 1

\* C9: a valid request makes one travel lookup, then at most one calendar
\* lookup, and the calendar is asked for exactly [requested_time, end_time].
C9_OneTravelThenCalendarRange ==
    /\ OutboundOrder
    /\ \A r \in Requests : \A i \in CallsTo(r, "calendar") :
         /\ WellFormedText(outbound[r][i].timeMin)
         /\ WellFormedText(outbound[r][i].timeMax)
         /\ TextInstant(outbound[r][i].timeMin) = RequestedInstant(r)
         /\ TextInstant(outbound[r][i].timeMax) = WindowEndInstant(r)

\* C10: with a time-zone-aware requested_time, the conflict test gives a
\* boolean whatever mix of dateTime and date the events carry.
C10_ConflictTestNeverRaises ==
    \A r \in Requests :
        (/\ Done(r)
         /\ CalendarAnswered(r)
         /\ Len(body[r].requested_time.zone) = 1) =>
            conflict[r] \in {"True", "False"}

====
